---- MODULE Spec2Model ----
(***************************************************************************)
(* Model of the colyseus-monitor backend API (api.ts, here                 *)
(* src/unnamed/part_002): the room list query GET / (type filter, ad-hoc   *)
(* filter, sort, pagination) and the guarded remote room calls of          *)
(* GET /room and GET /room/call.                                           *)
(***************************************************************************)
EXTENDS Integers, Sequences, FiniteSets, TLC

VARIABLES
    opts,      \* the MonitorOptions closed over by every route
    rooms,     \* the room listings matchMaker.query({}) returns, in order
    req,       \* the request answered last ([route |-> "idle"] once it is closed)
    res,       \* the response sent for req
    calls,     \* the matchMaker.remoteRoomCall invocations made for req, in order
    eng,       \* the last direct call of applyRoomFilters / applySorting / query filter
    pending    \* the handlers suspended at an await, by handler slot: the
               \* request of each, the remote calls it has made and its locals

vars == <<opts, rooms, req, res, calls, eng, pending>>

----------------------------------------------------------------------------
(* Bounds of the model.                                                    *)

MaxRooms == 2        \* rooms alive in the registry at a time
MaxArgs == 2         \* entries of the args array of /room/call

----------------------------------------------------------------------------
(* JavaScript values that reach a comparison: undefined, numbers, strings, *)
(* booleans and objects (s is then the identity of the object), all with   *)
(* one record shape.                                                       *)

Undef == [t |-> "undefined", n |-> 0, s |-> ""]
Num(i) == [t |-> "number", n |-> i, s |-> ""]
Str(x) == [t |-> "string", n |-> 0, s |-> x]
Bool(b) == [t |-> "boolean", n |-> IF b THEN 1 ELSE 0, s |-> ""]
Obj(id) == [t |-> "object", n |-> 0, s |-> id]

\* a === b
StrictEq(a, b) ==
    /\ a.t = b.t
    /\ a.n = b.n
    /\ a.s = b.s

\* Position of a string in code-unit order, for the strings of the model.
StrRank(x) ==
    CASE x = "" -> 0
      [] x = "ChatRoom" -> 1
      [] x = "GameRoom" -> 2
      [] x = "LobbyRoom" -> 3
      [] x = "[object Object]" -> 4
      [] x = "eu" -> 5
      [] x = "r1" -> 6
      [] x = "r2" -> 7
      [] x = "r3" -> 8
      [] x = "r4" -> 9
      [] x = "r5" -> 10
      [] x = "us" -> 11
      [] OTHER -> 12

\* ToPrimitive(v), hint number: a plain object becomes "[object Object]".
ToPrimitive(v) == IF v.t = "object" THEN Str("[object Object]") ELSE v

\* ToNumber(v) is NaN: undefined and the strings of the model but "".
IsNaN(v) == v.t = "undefined" \/ (v.t = "string" /\ v.s # "")

\* a < b: two strings compare by code units, anything else as numbers, and
\* a comparison with NaN is false.
JSLess(a, b) ==
    LET pa == ToPrimitive(a)
        pb == ToPrimitive(b)
    IN  IF pa.t = "string" /\ pb.t = "string"
        THEN StrRank(pa.s) < StrRank(pb.s)
        ELSE /\ ~IsNaN(pa)
             /\ ~IsNaN(pb)
             /\ pa.n < pb.n

----------------------------------------------------------------------------
(* Room listings.  metadata is undefined (hasMeta = FALSE) or a mapping;   *)
(* meta[k] is its value under k, Undef for a key it does not have.         *)

RoomTypes == {"GameRoom", "LobbyRoom"}
RoomIds == <<"r1", "r2", "r3", "r4", "r5">>
MetaKeys == {"score", "name"}
NoMeta == [k \in MetaKeys |-> Undef]

Room(id, name, clients, hasMeta, meta) ==
    [roomId |-> id, name |-> name, clients |-> clients, maxClients |-> 4,
     locked |-> FALSE, createdAt |-> 0, publicAddress |-> Undef,
     hasMeta |-> hasMeta, meta |-> meta]

\* room[key]
OwnField(room, key) ==
    CASE key = "roomId" -> Str(room.roomId)
      [] key = "name" -> Str(room.name)
      [] key = "clients" -> Num(room.clients)
      [] key = "maxClients" -> Num(room.maxClients)
      [] key = "locked" -> Bool(room.locked)
      [] key = "publicAddress" -> room.publicAddress
      [] key = "metadata" -> IF room.hasMeta THEN Obj(room.roomId) ELSE Undef
      [] OTHER -> Undef

\* room.metadata[key], for a room whose metadata is defined
MetaField(room, key) ==
    IF key \in MetaKeys THEN room.meta[key] ELSE Undef

----------------------------------------------------------------------------
(* applyRoomFilters.  filterOptions is opts.filter: present or not, with   *)
(* includeTypes and excludeTypes each defined or not.                      *)

NoFilterOptions ==
    [present |-> FALSE, includeTypes |-> [def |-> FALSE, v |-> {}],
     excludeTypes |-> [def |-> FALSE, v |-> {}]]

FilterOptionsOf(inc, exc) ==
    [present |-> TRUE, includeTypes |-> inc, excludeTypes |-> exc]

Included(room, filterOptions) == room.name \in filterOptions.includeTypes.v

Excluded(room, filterOptions) == room.name \in filterOptions.excludeTypes.v

\* applyRoomFilters without its exclusion step
applyRoomFilters_IncludeOnly(rs, filterOptions) ==
    IF ~filterOptions.present THEN rs
    ELSE IF filterOptions.includeTypes.def
            /\ Cardinality(filterOptions.includeTypes.v) > 0
         THEN SelectSeq(rs, LAMBDA room : Included(room, filterOptions))
         ELSE rs

applyRoomFilters(rs, filterOptions) ==
    IF ~filterOptions.present THEN rs
    ELSE LET afterInclude ==
                 IF filterOptions.includeTypes.def
                    /\ Cardinality(filterOptions.includeTypes.v) > 0
                 THEN SelectSeq(rs, LAMBDA room : Included(room, filterOptions))
                 ELSE rs
         IN  IF filterOptions.excludeTypes.def
                /\ Cardinality(filterOptions.excludeTypes.v) > 0
             THEN SelectSeq(afterInclude,
                            LAMBDA room : ~Excluded(room, filterOptions))
             ELSE afterInclude

----------------------------------------------------------------------------
(* The ad-hoc query filter of GET /.  The text of the filter parameter is  *)
(* given by what JSON.parse and Object.entries make of it: kind is         *)
(* "absent" (no parameter), "empty" (the empty text), "invalid" (not       *)
(* JSON), or the JSON type of the parsed value; entries are the            *)
(* Object.entries of the parsed value (index/character pairs for a string, *)
(* index/element pairs for an array, none for a number or a boolean).      *)

FilterParam(kind, entries) == [kind |-> kind, entries |-> entries]

\* if (filter): a missing or empty parameter is falsy
FilterGiven(filter) == filter.kind \notin {"absent", "empty"}

\* JSON.parse(filter) throws a SyntaxError
ParseThrows(filter) == filter.kind = "invalid"

\* Object.entries(filterObj) throws a TypeError
EntriesThrows(filter) == filter.kind = "null"

\* room[key] === value || (room.metadata && room.metadata[key] === value)
PairMatches(room, pair) ==
    \/ StrictEq(OwnField(room, pair[1]), pair[2])
    \/ /\ room.hasMeta
       /\ StrictEq(MetaField(room, pair[1]), pair[2])

\* Object.entries(filterObj).some(...) in the place of every
RECURSIVE SomePair(_, _)
SomePair(room, entries) ==
    IF entries = <<>> THEN FALSE
    ELSE PairMatches(room, Head(entries)) \/ SomePair(room, Tail(entries))

\* Object.entries(filterObj).every(...)
RECURSIVE EveryPair(_, _)
EveryPair(room, entries) ==
    IF entries = <<>> THEN TRUE
    ELSE PairMatches(room, Head(entries)) /\ EveryPair(room, Tail(entries))

\* lines 112-128: the filtered list after the query filter
applyQueryFilter(rs, filter) ==
    IF ~FilterGiven(filter) THEN rs
    ELSE IF ParseThrows(filter) THEN rs
    ELSE IF EntriesThrows(filter) /\ Len(rs) > 0 THEN rs
    ELSE SelectSeq(rs, LAMBDA room : EveryPair(room, filter.entries))

----------------------------------------------------------------------------
(* applySorting.  A sort key is split at its dots; the comparator walks    *)
(* the parts with optional chaining.                                       *)

\* sort.split(".")
SplitDots(sort) ==
    CASE sort = "clients" -> <<"clients">>
      [] sort = "name" -> <<"name">>
      [] sort = "roomId" -> <<"roomId">>
      [] sort = "metadata.score" -> <<"metadata", "score">>
      [] sort = "metadata.score.value" -> <<"metadata", "score", "value">>
      [] sort = "region" -> <<"region">>
      [] OTHER -> <<sort>>

\* the loop of lines 58-61 on one room
PathValue(room, parts) ==
    LET first == OwnField(room, parts[1])
    IN  IF Len(parts) = 1 THEN first
        ELSE IF parts[1] = "metadata" /\ room.hasMeta
             THEN IF Len(parts) = 2 THEN MetaField(room, parts[2])
                  ELSE Undef
             ELSE Undef

\* the comparator without its order flag
Compare_IgnoresOrder(a, b, sort, order) ==
    LET parts == SplitDots(sort)
        aVal == PathValue(a, parts)
        bVal == PathValue(b, parts)
    IN  IF StrictEq(aVal, bVal) THEN 0
        ELSE IF JSLess(aVal, bVal) THEN -1 ELSE 1

\* the comparator of lines 52-68
Compare(a, b, sort, order) ==
    LET parts == SplitDots(sort)
        aVal == PathValue(a, parts)
        bVal == PathValue(b, parts)
    IN  IF StrictEq(aVal, bVal) THEN 0
        ELSE LET result == IF JSLess(aVal, bVal) THEN -1 ELSE 1
             IN  IF order = "desc" THEN -result ELSE result

\* Array.prototype.sort of V8 on fewer than 64 elements: the run at the
\* start of the array is found (CountAndMakeRun), reversed when strictly
\* descending, and the rest is inserted by binary insertion.
RECURSIVE RunLength(_, _, _, _, _)
RunLength(arr, k, descending, sort, order) ==
    IF k = Len(arr) THEN k
    ELSE LET c == Compare(arr[k + 1], arr[k], sort, order)
         IN  IF descending
             THEN IF c >= 0 THEN k
                  ELSE RunLength(arr, k + 1, descending, sort, order)
             ELSE IF c < 0 THEN k
                  ELSE RunLength(arr, k + 1, descending, sort, order)

ReverseRange(arr, k) ==
    [i \in 1..Len(arr) |-> IF i <= k THEN arr[k + 1 - i] ELSE arr[i]]

\* left and right are zero-based, as in V8
RECURSIVE InsertionPoint(_, _, _, _, _, _)
InsertionPoint(arr, pivot, left, right, sort, order) ==
    IF left >= right THEN left
    ELSE LET mid == left + ((right - left) \div 2)
         IN  IF Compare(pivot, arr[mid + 1], sort, order) < 0
             THEN InsertionPoint(arr, pivot, left, mid, sort, order)
             ELSE InsertionPoint(arr, pivot, mid + 1, right, sort, order)

RECURSIVE BinaryInsertionSort(_, _, _, _)
BinaryInsertionSort(arr, start, sort, order) ==
    IF start >= Len(arr) THEN arr
    ELSE LET pivot == arr[start + 1]
             left == InsertionPoint(arr, pivot, 0, start, sort, order)
             moved == [i \in 1..Len(arr) |->
                         IF i = left + 1 THEN pivot
                         ELSE IF i > left + 1 /\ i <= start + 1 THEN arr[i - 1]
                         ELSE arr[i]]
         IN  BinaryInsertionSort(moved, start + 1, sort, order)

ArraySort(arr, sort, order) ==
    IF Len(arr) < 2 THEN arr
    ELSE LET descending == Compare(arr[2], arr[1], sort, order) < 0
             run == RunLength(arr, 2, descending, sort, order)
             made == IF descending THEN ReverseRange(arr, run) ELSE arr
         IN  BinaryInsertionSort(made, run, sort, order)

\* sort is "" when neither the query nor the configuration names a key
applySorting(rs, sort, order) ==
    IF sort = "" THEN rs ELSE ArraySort(rs, sort, order)

----------------------------------------------------------------------------
(* The options of the monitor.  An access flag is "true", "false" or       *)
(* "unset"; an action list is defined or not.                              *)

Flags == {"true", "false", "unset"}

AccessOf(inspect, modify, messages, disposal) ==
    [allowStateInspection |-> inspect, allowStateModification |-> modify,
     allowClientMessages |-> messages, allowRoomDisposal |-> disposal]

NoAccess == AccessOf("unset", "unset", "unset", "unset")

Action(id, handler, confirm) ==
    [id |-> id, name |-> id, description |-> "", icon |-> "",
     confirmRequired |-> confirm, handler |-> handler]

NoActions == [def |-> FALSE, list |-> <<>>]

\* pageSize 0 and the empty defaultSort / defaultOrder stand for "not set"
NoRoomList == [defaultSort |-> "", defaultOrder |-> "", pageSize |-> 0]

\* opts.columns is not configured
NoColumns == [def |-> FALSE, list |-> <<>>]

OptsOf(access, filter, roomActions, clientActions, roomList) ==
    [access |-> access, filter |-> filter,
     actions |-> [room |-> roomActions, client |-> clientActions],
     roomList |-> roomList, columns |-> NoColumns]

NoOpts == OptsOf(NoAccess, NoFilterOptions, NoActions, NoActions, NoRoomList)

----------------------------------------------------------------------------
(* Requests, responses and engine calls at rest.                           *)

Idle == [route |-> "idle"]
NoResponse == [status |-> 0, error |-> FALSE, message |-> "", data |-> <<>>]
NoCall == [fn |-> "none"]

\* the handler slots of the event loop, two handlers being suspended at a
\* time at most, and a slot with no request in it.
\* The frame of a handler holds the await it is suspended at (pc), its
\* request (q), the remote calls it has made (calls), the ways the call
\* awaited can settle (outcomes), the list matchMaker.query resolved with
\* (snapshot, the local rooms of line 106) and the body built from it
\* (data).
Slots == {1, 2}
Free == [pc |-> "free", q |-> Idle, calls |-> <<>>, outcomes |-> {},
         snapshot |-> <<>>, data |-> <<>>]
NoPending == [s \in Slots |-> Free]

\* a handler that reaches an await takes the first slot that is free
Takes(s) ==
    /\ pending[s].pc = "free"
    /\ \A t \in Slots : t < s => pending[t].pc # "free"

\* no handler is suspended
Alone == \A s \in Slots : pending[s].pc = "free"

----------------------------------------------------------------------------
(* SpecEngine: the pure functions of the list query applied to room lists  *)
(* drawn from a bounded set.                                               *)

MaxListLen == 3      \* rooms in a list handed to the functions directly

\* the listings the room in slot i can have
RoomShapes(i) ==
    LET id == RoomIds[i]
    IN  << Room(id, "GameRoom", 1, FALSE, NoMeta),
           [Room(id, "LobbyRoom", 2, TRUE, [NoMeta EXCEPT !["score"] = Num(1)])
               EXCEPT !.publicAddress = Str("eu")],
           Room(id, "GameRoom", 2, TRUE, [NoMeta EXCEPT !["score"] = Num(2)]),
           Room(id, "LobbyRoom", 1, TRUE, NoMeta),
           Room(id, "LobbyRoom", 3, TRUE,
                [NoMeta EXCEPT !["score"] = Num(1), !["name"] = Str("GameRoom")]),
           Room(id, "GameRoom", 3, TRUE, [NoMeta EXCEPT !["score"] = Num(2)]) >>

AllShapes == {1, 2, 3, 4, 5, 6}

\* the lists of at most maxLen rooms, the room in slot i with one of the
\* listings of RoomShapes(i) that shapes names
RoomLists(maxLen, shapes) ==
    UNION { { rs \in [1..n -> UNION { {RoomShapes(i)[k] : k \in shapes} : i \in 1..n }] :
                \A i \in 1..n : \E k \in shapes : rs[i] = RoomShapes(i)[k] } :
            n \in 0..maxLen }

TypeSets == SUBSET RoomTypes

TypeLists == { [def |-> FALSE, v |-> {}] } \cup { [def |-> TRUE, v |-> ts] : ts \in TypeSets }

FilterOptionsSet ==
    {NoFilterOptions} \cup { FilterOptionsOf(inc, exc) : inc \in TypeLists, exc \in TypeLists }

\* filter parameters that parse to a mapping
MappingFilters ==
    { FilterParam("object", <<>>),
      FilterParam("object", << <<"name", Str("GameRoom")>> >>),
      FilterParam("object", << <<"clients", Num(1)>> >>),
      FilterParam("object", << <<"score", Num(1)>> >>),
      FilterParam("object", << <<"name", Str("GameRoom")>>, <<"clients", Num(2)>> >>),
      FilterParam("object", << <<"clients", Num(1)>>, <<"score", Num(2)>> >>),
      FilterParam("object", << <<"name", Str("GameRoom")>>, <<"score", Num(1)>> >>),
      FilterParam("object", << <<"region", Str("eu")>> >>) }

\* filter parameters that do not
OtherFilters ==
    { FilterParam("absent", <<>>),
      FilterParam("empty", <<>>),
      FilterParam("invalid", <<>>),
      FilterParam("null", <<>>),
      FilterParam("number", <<>>),
      FilterParam("string", << <<"0", Str("e")>>, <<"1", Str("u")>> >>),
      FilterParam("array", << <<"0", Num(1)>> >>) }

SortKeys == {"clients", "name", "roomId", "metadata.score", "metadata.score.value", "region"}

Orders == {"asc", "desc"}

EngineCall(fn, filterOptions, filter, sort, order, out) ==
    [fn |-> fn, filterOptions |-> filterOptions, filter |-> filter,
     sort |-> sort, order |-> order, out |-> out]

InitEngine ==
    /\ opts = NoOpts
    /\ rooms \in RoomLists(MaxListLen, AllShapes)
    /\ req = Idle
    /\ res = NoResponse
    /\ calls = <<>>
    /\ eng = NoCall
    /\ pending = NoPending

CallApplyRoomFilters ==
    /\ eng = NoCall
    /\ \E fo \in FilterOptionsSet :
          eng' = EngineCall("applyRoomFilters", fo, FilterParam("absent", <<>>),
                            "", "", applyRoomFilters(rooms, fo))
    /\ UNCHANGED <<opts, rooms, req, res, calls, pending>>

CallQueryFilter ==
    /\ eng = NoCall
    /\ \E f \in MappingFilters \cup OtherFilters :
          eng' = EngineCall("queryFilter", NoFilterOptions, f, "", "",
                            applyQueryFilter(rooms, f))
    /\ UNCHANGED <<opts, rooms, req, res, calls, pending>>

CallApplySorting ==
    /\ eng = NoCall
    /\ \E sort \in SortKeys \cup {""}, order \in Orders :
          eng' = EngineCall("applySorting", NoFilterOptions,
                            FilterParam("absent", <<>>), sort, order,
                            applySorting(rooms, sort, order))
    /\ UNCHANGED <<opts, rooms, req, res, calls, pending>>

\* the caller drops the result
Return ==
    /\ eng # NoCall
    /\ eng' = NoCall
    /\ UNCHANGED <<opts, rooms, req, res, calls, pending>>

NextEngine ==
    \/ CallApplyRoomFilters
    \/ CallQueryFilter
    \/ CallApplySorting
    \/ Return

SpecEngine == InitEngine /\ [][NextEngine]_vars

----------------------------------------------------------------------------
(* Properties of the pure functions, under SpecEngine.                     *)

\* the index of the room with this id in a list of rooms with distinct ids
Pos(rs, id) == CHOOSE i \in 1..Len(rs) : rs[i].roomId = id

\* out holds exactly the rooms of rs that satisfy Keep, in the order of rs
ExactlyInOrder(out, rs, Keep(_)) ==
    /\ \A i \in 1..Len(out) :
          /\ \E j \in 1..Len(rs) : rs[j] = out[i]
          /\ Keep(out[i])
    /\ \A j \in 1..Len(rs) : Keep(rs[j]) => \E i \in 1..Len(out) : out[i] = rs[j]
    /\ \A i, k \in 1..Len(out) :
          i < k => Pos(rs, out[i].roomId) < Pos(rs, out[k].roomId)

\* the type filter as the specification words it
PassesTypeFilter(room, fo) ==
    /\ (fo.includeTypes.def /\ fo.includeTypes.v # {}) => room.name \in fo.includeTypes.v
    /\ (fo.excludeTypes.def /\ fo.excludeTypes.v # {}) => room.name \notin fo.excludeTypes.v

\* C5: applyRoomFilters returns exactly the input rooms, in input order,
\* whose type name is in a non-empty includeTypes and not in a non-empty
\* excludeTypes; an empty or absent list imposes no constraint and a room
\* named in both lists is dropped.
C5_TypeFilterExact ==
    eng.fn = "applyRoomFilters" =>
        ExactlyInOrder(eng.out, rooms,
                       LAMBDA room : PassesTypeFilter(room, eng.filterOptions))

\* a room of a type named in both lists was in the input and is not in the output
C5_Witness ==
    /\ eng.fn = "applyRoomFilters"
    /\ eng.filterOptions.present
    /\ \E j \in 1..Len(rooms) :
          /\ rooms[j].name \in eng.filterOptions.includeTypes.v
          /\ rooms[j].name \in eng.filterOptions.excludeTypes.v
    /\ Len(eng.out) >= 1
    /\ Len(eng.out) < Len(rooms)

\* a pair of the mapping matches: the own field or the metadata entry equals the value
PairHolds(room, key, value) ==
    \/ OwnField(room, key) = value
    \/ (room.hasMeta /\ key \in MetaKeys /\ room.meta[key] = value)

\* C7: with a filter mapping, a room is kept iff every pair of the mapping
\* matches its own field or, failing that, its metadata entry; the empty
\* mapping keeps every room.
C7_QueryFilterIsConjunction ==
    (eng.fn = "queryFilter" /\ eng.filter.kind = "object") =>
        ExactlyInOrder(eng.out, rooms,
                       LAMBDA room :
                           \A i \in 1..Len(eng.filter.entries) :
                               PairHolds(room, eng.filter.entries[i][1],
                                         eng.filter.entries[i][2]))

\* a two-pair mapping keeps a room through its metadata and drops a room
\* that matches only one of the two pairs
C7_Witness ==
    /\ eng.fn = "queryFilter"
    /\ eng.filter.kind = "object"
    /\ Len(eng.filter.entries) = 2
    /\ \E i \in 1..Len(eng.out) :
          \E p \in 1..2 :
              OwnField(eng.out[i], eng.filter.entries[p][1]) # eng.filter.entries[p][2]
    /\ \E j \in 1..Len(rooms) :
          /\ \A i \in 1..Len(eng.out) : eng.out[i] # rooms[j]
          /\ \E p \in 1..2 :
                PairHolds(rooms[j], eng.filter.entries[p][1], eng.filter.entries[p][2])

Reverse(sq) == [i \in 1..Len(sq) |-> sq[Len(sq) + 1 - i]]

SortValue(room, sort) == PathValue(room, SplitDots(sort))

\* the sort-key values of the rooms are all numbers or all strings, and
\* no two of them are equal
NoTies(rs, sort) ==
    /\ \/ \A i \in 1..Len(rs) : SortValue(rs[i], sort).t = "number"
       \/ \A i \in 1..Len(rs) : SortValue(rs[i], sort).t = "string"
    /\ \A i, j \in 1..Len(rs) :
          i # j => ~StrictEq(SortValue(rs[i], sort), SortValue(rs[j], sort))

\* C9 as stated: for every list and sort key, the list sorted "desc" is the
\* exact reverse of the list sorted "asc", rooms with equal values included.
C9_DescIsReverseOfAsc ==
    (eng.fn = "applySorting" /\ eng.sort # "" /\ eng.order = "desc") =>
        eng.out = Reverse(applySorting(rooms, eng.sort, "asc"))

\* C9 amended: the list sorted "desc" is the exact reverse of the list
\* sorted "asc" when the sort-key values of the rooms are all numbers or
\* all strings and pairwise different.
C9_DescIsReverseOfAscNoTies ==
    (eng.fn = "applySorting" /\ eng.sort # "" /\ eng.order = "desc"
     /\ NoTies(rooms, eng.sort)) =>
        eng.out = Reverse(applySorting(rooms, eng.sort, "asc"))

\* three rooms with three different numbers or three different strings,
\* sorted "desc" into an order that is neither the input nor its reverse
C9_Witness ==
    /\ eng.fn = "applySorting"
    /\ eng.sort # ""
    /\ eng.order = "desc"
    /\ Len(rooms) = 3
    /\ NoTies(rooms, eng.sort)
    /\ eng.out # rooms
    /\ eng.out # Reverse(rooms)

\* C10: in ascending order every room whose sort path is missing precedes
\* every room with a defined value, wherever the rooms were in the input.
C10_UndefinedSortsFirst ==
    (eng.fn = "applySorting" /\ eng.sort # "" /\ eng.order = "asc") =>
        \A i, j \in 1..Len(eng.out) :
            (/\ SortValue(eng.out[i], eng.sort) = Undef
             /\ SortValue(eng.out[j], eng.sort) # Undef) => i < j

\* out holds exactly the rooms of rs, each once
IsPermutation(out, rs) ==
    /\ Len(out) = Len(rs)
    /\ \A j \in 1..Len(rs) : \E i \in 1..Len(out) : out[i] = rs[j]

\* rooms of rs with equal sort-key values are in out in their order in rs
KeepsTies(out, rs, sort) ==
    \A i, k \in 1..Len(out) :
        (i < k /\ StrictEq(SortValue(out[i], sort), SortValue(out[k], sort)))
            => Pos(rs, out[i].roomId) < Pos(rs, out[k].roomId)

\* C11: applySorting returns a permutation of its input in which rooms with
\* equal sort-key values keep their relative input order, in "asc" and in
\* "desc"; without a sort key it returns the input unchanged.
C11_StablePermutation ==
    eng.fn = "applySorting" =>
        /\ IsPermutation(eng.out, rooms)
        /\ eng.sort # "" => KeepsTies(eng.out, rooms, eng.sort)
        /\ eng.sort = "" => eng.out = rooms

----------------------------------------------------------------------------
(* Responses.                                                              *)

\* handleError(res, message, status): res.status(status); res.json({error: true, message})
handleError(message, status) ==
    [status |-> status, error |-> TRUE, message |-> message, data |-> <<>>]

\* res.json(data), the status left at 200
Json(data) == [status |-> 200, error |-> FALSE, message |-> "", data |-> data]

\* the process ended with exit code 1: no request is answered after it
ProcessExit == [status |-> -1, error |-> FALSE, message |-> "exit code 1", data |-> <<>>]

\* An exception thrown outside the handler's try block rejects the promise
\* of the async handler.  express 4 does not look at that promise: the
\* request stays without a response, and the rejection, unhandled, ends
\* the process where Node treats it as fatal (its default from version 15
\* on).  express 5 hands the error to its default handler, which answers
\* 500 with a page that is not the JSON error body.  The source names no
\* version of express or Node, so each of the three can happen.
UncaughtOutcomes ==
    { NoResponse,
      ProcessExit,
      [status |-> 500, error |-> FALSE, message |-> "", data |-> "SyntaxError"] }

\* String(v) of a query parameter
ToStr(v) == IF v.t = "undefined" THEN "undefined" ELSE v.s

\* the text String.prototype.replace puts in the place of the match
\* "$roomId" for a replacement string that holds no dollar sign or is one
\* replacement pattern: "$$" stands for "$", "$&" for the match and "$'"
\* for the text after the match.  The pattern for the text before the
\* match, a dollar sign and a grave accent, cannot be written as a TLA+
\* string and is not among the replacement strings of the model.
Substitution(replacement) ==
    CASE replacement = "$$" -> "$"
      [] replacement = "$&" -> "$roomId"
      [] replacement = "$'" -> " is not available anymore."
      [] OTHER -> replacement

\* UNAVAILABLE_ROOM_ERROR.replace("$roomId", roomId)
UnavailableRoomError(roomId) ==
    "@colyseus/monitor: room " \o Substitution(ToStr(roomId))
    \o " is not available anymore."

----------------------------------------------------------------------------
(* The registry: matchMaker.remoteRoomCall(roomId, method, args).          *)

RoomLive(roomId) ==
    /\ roomId.t = "string"
    /\ \E i \in 1..Len(rooms) : rooms[i].roomId = roomId.s

\* the argument list of a remote call: an array, a JSON value that is not
\* an array, or undefined when the caller passes none
Args(kind, items) == [kind |-> kind, items |-> items]

NoArgs == Args("undefined", <<>>)

RemoteCall(roomId, method, args) ==
    [roomId |-> roomId, method |-> method, args |-> args]

\* the ways a call made now can settle: it rejects when the room is gone
\* when the call is made, and when the method is missing on the room or
\* throws; a call that reached its room can resolve after the room is
\* disposed
RemoteOutcomes(roomId) ==
    IF RoomLive(roomId) THEN {"resolves", "rejects"} ELSE {"rejects"}

\* what the room method returned
RemoteData(call) == [returnedBy |-> call, actions |-> <<>>, clientActions |-> <<>>]

----------------------------------------------------------------------------
(* Custom actions.                                                         *)

\* the actions as they are configured, handler included
RECURSIVE ActionViews_WithHandler(_)
ActionViews_WithHandler(list) ==
    IF list = <<>> THEN <<>>
    ELSE << Head(list) >> \o ActionViews_WithHandler(Tail(list))

\* {id, name, description, icon, confirmRequired} of every action of a list
RECURSIVE ActionViews(_)
ActionViews(list) ==
    IF list = <<>> THEN <<>>
    ELSE << [id |-> Head(list).id, name |-> Head(list).name,
             description |-> Head(list).description, icon |-> Head(list).icon,
             confirmRequired |-> Head(list).confirmRequired] >>
         \o ActionViews(Tail(list))

\* the action found, its id taken for the name of its handler
RECURSIVE Find_ReturnsId(_, _)
Find_ReturnsId(list, actionId) ==
    IF list = <<>> THEN [found |-> FALSE, handler |-> ""]
    ELSE IF Head(list).id = actionId
         THEN [found |-> TRUE, handler |-> Head(list).id]
         ELSE Find_ReturnsId(Tail(list), actionId)

\* list?.find((a) => a.id === actionId): the first action with that id
RECURSIVE Find(_, _)
Find(list, actionId) ==
    IF list = <<>> THEN [found |-> FALSE, handler |-> ""]
    ELSE IF Head(list).id = actionId
         THEN [found |-> TRUE, handler |-> Head(list).handler]
         ELSE Find(Tail(list), actionId)

\* the handler called whether an action was found or not
Usable_Always(action) == TRUE

\* action && action.handler
Usable(action) == action.found /\ action.handler # ""

----------------------------------------------------------------------------
(* The method tokens of the model and the string functions applied to      *)
(* them.                                                                   *)

RoomTokens ==
    {"customAction:restart", "customAction:kick", "customAction:ping",
     "customAction:nope"}

ClientTokens ==
    {"customClientAction:ping:c1", "customClientAction:ping",
     "customClientAction:restart:c1"}

BareTokens ==
    {"disconnect", "_sendMessageToClient", "_updateRoomState", "restartRoom"}

\* method.startsWith(prefix)
StartsWith(method, prefix) ==
    CASE prefix = "customAction:" -> method \in RoomTokens
      [] prefix = "customClientAction:" -> method \in ClientTokens
      [] OTHER -> FALSE

\* method.replace("customAction:", "")
AfterRoomPrefix(method) ==
    CASE method = "customAction:restart" -> "restart"
      [] method = "customAction:kick" -> "kick"
      [] method = "customAction:ping" -> "ping"
      [] method = "customAction:nope" -> "nope"
      [] OTHER -> method

\* method.replace("customClientAction:", "").split(":")
ClientParts(method) ==
    CASE method = "customClientAction:ping:c1" -> <<"ping", "c1">>
      [] method = "customClientAction:ping" -> <<"ping">>
      [] method = "customClientAction:restart:c1" -> <<"restart", "c1">>
      [] OTHER -> <<method>>

\* parts[i]
Part(parts, i) == IF i <= Len(parts) THEN Str(parts[i]) ELSE Undef

----------------------------------------------------------------------------
(* GET /room/call.                                                         *)

\* the args parameter: kind is "absent", "invalid" (not JSON), "array" or
\* "number" (JSON that is not an array)
ArgsParam(kind, items) == [kind |-> kind, items |-> items]

\* JSON.parse((req.query.args as string) || "[]") throws a SyntaxError
ArgsThrow(argsParam) == argsParam.kind = "invalid"

\* JSON.parse((req.query.args as string) || "[]")
ParsedArgs(argsParam) ==
    IF argsParam.kind = "absent" THEN Args("array", <<>>)
    ELSE Args(argsParam.kind, argsParam.items)

\* [...args, clientId]: the client id after the caller's args
clientArgs_ClientIdLast(clientId, args) == Args("array", args.items \o <<clientId>>)

\* [clientId, ...args] of lines 309-312, args an array
clientArgs(clientId, args) == Args("array", <<clientId>> \o args.items)

\* the guard of line 267 left out
DisposalDenied_Never(o, method) == FALSE

\* the guard of line 267 applied whatever the method
DisposalDenied_EveryMethod(o, method) == o.access.allowRoomDisposal = "false"

\* the guard of line 267 with the flag of line 273
DisposalDenied_WrongFlag(o, method) ==
    /\ StrictEq(method, Str("disconnect"))
    /\ o.access.allowClientMessages = "false"

\* method === "disconnect" && opts.access?.allowRoomDisposal === false
DisposalDenied(o, method) ==
    /\ StrictEq(method, Str("disconnect"))
    /\ o.access.allowRoomDisposal = "false"

\* the guard of lines 271-274 with the flag of line 267
MessagesDenied_WrongFlag(o, method) ==
    /\ StrictEq(method, Str("_sendMessageToClient"))
    /\ o.access.allowRoomDisposal = "false"

\* method === "_sendMessageToClient" && opts.access?.allowClientMessages === false
MessagesDenied(o, method) ==
    /\ StrictEq(method, Str("_sendMessageToClient"))
    /\ o.access.allowClientMessages = "false"

ActionList(actions) == IF actions.def THEN actions.list ELSE <<>>

\* what a branch of the handler leaves behind: the response and the remote calls made
Outcome(response, made) == [res |-> response, calls |-> made]

\* the remote call made a second time when the first rejects
Dispatch_Retries(call, outcome) ==
    CASE outcome = "pending" -> Outcome(NoResponse, <<call>>)
      [] outcome = "resolves" -> Outcome(Json(RemoteData(call)), <<call>>)
      [] OTHER -> Outcome(handleError(UnavailableRoomError(call.roomId), 500),
                          <<call, call>>)

\* await matchMaker.remoteRoomCall(...); res.json(data), or the catch
\* block: the call is made and the handler is suspended, with no response
\* sent, while the outcome is "pending"
Dispatch(call, outcome) ==
    CASE outcome = "pending" -> Outcome(NoResponse, <<call>>)
      [] outcome = "resolves" -> Outcome(Json(RemoteData(call)), <<call>>)
      [] OTHER -> Outcome(handleError(UnavailableRoomError(call.roomId), 500), <<call>>)

\* lines 265-329, args being the parsed args parameter and outcome the
\* fate of the remote call, if one is made ("pending" while it is awaited)
roomCall(o, roomId, method, args, outcome) ==
    IF DisposalDenied(o, method)
    THEN Outcome(handleError("Room disposal is not allowed", 403), <<>>)
    ELSE IF MessagesDenied(o, method)
    THEN Outcome(handleError("Sending client messages is not allowed", 403), <<>>)
    ELSE IF method.t = "undefined"
    THEN \* method.startsWith throws a TypeError, caught at line 326
         Outcome(handleError(UnavailableRoomError(roomId), 500), <<>>)
    ELSE IF StartsWith(method.s, "customAction:")
    THEN LET actionId == AfterRoomPrefix(method.s)
             action == Find(ActionList(o.actions.room), actionId)
         IN  IF Usable(action)
             THEN Dispatch(RemoteCall(roomId, action.handler, args), outcome)
             ELSE Outcome(handleError("Custom action " \o actionId \o " not found", 404),
                          <<>>)
    ELSE IF StartsWith(method.s, "customClientAction:")
    THEN LET parts == ClientParts(method.s)
             actionId == parts[1]
             clientId == Part(parts, 2)
             action == Find(ActionList(o.actions.client), actionId)
         IN  IF Usable(action)
             THEN IF args.kind = "array"
                  THEN Dispatch(RemoteCall(roomId, action.handler,
                                           clientArgs(clientId, args)),
                                outcome)
                  ELSE \* [clientId, ...args] throws a TypeError, caught at line 326
                       Outcome(handleError(UnavailableRoomError(roomId), 500), <<>>)
             ELSE Outcome(handleError("Custom client action " \o actionId \o " not found",
                                      404),
                          <<>>)
    ELSE Dispatch(RemoteCall(roomId, method.s, args), outcome)

----------------------------------------------------------------------------
(* GET /room.                                                              *)

\* the guard of line 221 with the flag of line 267
InspectionDenied_WrongFlag(o) == o.access.allowRoomDisposal = "false"

\* opts.access?.allowStateInspection === false
InspectionDenied(o) == o.access.allowStateInspection = "false"

\* inspectData with the actions and clientActions of lines 231-250
WithActions(o, inspectData) ==
    [inspectData EXCEPT
        !.actions = IF o.actions.room.def
                    THEN ActionViews(o.actions.room.list) ELSE @,
        !.clientActions = IF o.actions.client.def
                          THEN ActionViews(o.actions.client.list) ELSE @]

\* lines 217-256, outcome being the fate of the remote call, if one is
\* made ("pending" while it is awaited at line 225)
roomInspect(o, roomId, outcome) ==
    IF InspectionDenied(o)
    THEN Outcome(handleError("State inspection is not allowed", 403), <<>>)
    ELSE LET call == RemoteCall(roomId, "getInspectData", NoArgs)
         IN  CASE outcome = "pending" -> Outcome(NoResponse, <<call>>)
               [] outcome = "resolves" ->
                      Outcome(Json(WithActions(o, RemoteData(call))), <<call>>)
               [] OTHER -> Outcome(handleError(UnavailableRoomError(roomId), 500),
                                   <<call>>)

----------------------------------------------------------------------------
(* The parameters of the requests for /room and /room/call and the options *)
(* they are answered under.                                                *)

\* the access policies: every flag false or unset, every flag true, one
\* flag false with the others true, and one flag true with the others
\* false
AccessSet ==
    { AccessOf(i, m, c, d) : i \in {"false", "unset"}, m \in {"false", "unset"},
                             c \in {"false", "unset"}, d \in {"false", "unset"} }
    \cup { a \in { AccessOf(i, m, c, d) : i \in Flags, m \in Flags, c \in Flags, d \in Flags } :
             /\ "unset" \notin {a.allowStateInspection, a.allowStateModification,
                                a.allowClientMessages, a.allowRoomDisposal}
             /\ Cardinality({ f \in {"i", "m", "c", "d"} :
                                 CASE f = "i" -> a.allowStateInspection = "false"
                                   [] f = "m" -> a.allowStateModification = "false"
                                   [] f = "c" -> a.allowClientMessages = "false"
                                   [] f = "d" -> a.allowRoomDisposal = "false" }) \in {0, 1, 3} }

RoomActions ==
    [def |-> TRUE,
     list |-> << Action("restart", "restartRoom", TRUE),
                 Action("kick", "disconnect", FALSE),
                 Action("nope", "", FALSE) >>]

ClientActions == [def |-> TRUE, list |-> << Action("ping", "pingClient", FALSE) >>]

ActionSets == { <<NoActions, NoActions>>, <<RoomActions, ClientActions>> }

RoomIdParams == {Str("r1"), Str("r9"), Str("$&"), Str("$'"), Undef}

MethodParams == {Undef} \cup { Str(m) : m \in BareTokens \cup RoomTokens \cup ClientTokens }

ArgNames == <<"a", "b", "c", "d">>

ArgsParams ==
    { ArgsParam("absent", <<>>), ArgsParam("invalid", <<>>), ArgsParam("number", <<>>) }
    \cup { ArgsParam("array", [i \in 1..n |-> Str(ArgNames[i])]) : n \in {0, MaxArgs} }

----------------------------------------------------------------------------
(* GET /: the room list.                                                   *)

DefaultLimit == 100

\* a page or limit parameter: kind is "absent", "text" (no leading number)
\* or "int" (the text of the integer n)
NumberParam(kind, n) == [kind |-> kind, n |-> n]

\* parseInt(param): NaN unless the text is that of an integer
ParseInt(param) ==
    IF param.kind = "int" THEN [nan |-> FALSE, n |-> param.n]
    ELSE [nan |-> TRUE, n |-> 0]

\* parsed || fallback, on numbers: NaN and 0 are falsy
OrElse(parsed, fallback) ==
    IF parsed.nan \/ parsed.n = 0 THEN fallback ELSE parsed.n

\* lines 94-103: the query specification of a request
sortOf(o, q) == IF q.sort # "" THEN q.sort ELSE o.roomList.defaultSort

orderOf(o, q) ==
    IF q.order # "" THEN q.order
    ELSE IF o.roomList.defaultOrder # "" THEN o.roomList.defaultOrder
    ELSE "asc"

pageOf(q) == OrElse(ParseInt(q.page), 1)

limitOf(o, q) ==
    OrElse(ParseInt(q.limit), OrElse([nan |-> FALSE, n |-> o.roomList.pageSize], DefaultLimit))

\* the element at index end taken as well
Slice_EndInclusive(arr, start, end) ==
    LET len == Len(arr)
        k == IF start < 0 THEN (IF len + start > 0 THEN len + start ELSE 0)
             ELSE (IF start < len THEN start ELSE len)
        final == IF end + 1 < 0 THEN (IF len + end + 1 > 0 THEN len + end + 1 ELSE 0)
                 ELSE (IF end + 1 < len THEN end + 1 ELSE len)
        count == IF final - k > 0 THEN final - k ELSE 0
    IN  [i \in 1..count |-> arr[k + i]]

\* arr.slice(start, end)
Slice(arr, start, end) ==
    LET len == Len(arr)
        k == IF start < 0 THEN (IF len + start > 0 THEN len + start ELSE 0)
             ELSE (IF start < len THEN start ELSE len)
        final == IF end < 0 THEN (IF len + end > 0 THEN len + end ELSE 0)
                 ELSE (IF end < len THEN end ELSE len)
        count == IF final - k > 0 THEN final - k ELSE 0
    IN  [i \in 1..count |-> arr[k + i]]

\* Math.floor in the place of Math.ceil
CeilDiv_Floor(total, limit) ==
    IF limit > 0 THEN total \div limit
    ELSE -((total + (-limit) - 1) \div (-limit))

\* Math.ceil(total / limit), limit not 0
CeilDiv(total, limit) ==
    IF limit > 0 THEN (total + limit - 1) \div limit
    ELSE -(total \div (-limit))

\* createdAt overwritten with the time of the request
FormatRoom_StampsCreatedAt(room, now) ==
    [roomId |-> room.roomId, name |-> room.name, clients |-> room.clients,
     maxClients |-> ToString(room.maxClients), locked |-> room.locked,
     createdAt |-> now, publicAddress |-> room.publicAddress,
     hasMeta |-> room.hasMeta, meta |-> room.meta,
     elapsedTime |-> now - room.createdAt]

\* lines 157-170 on one room
FormatRoom(room, now) ==
    [roomId |-> room.roomId, name |-> room.name, clients |-> room.clients,
     maxClients |-> ToString(room.maxClients), locked |-> room.locked,
     createdAt |-> room.createdAt, publicAddress |-> room.publicAddress,
     hasMeta |-> room.hasMeta, meta |-> room.meta,
     elapsedTime |-> now - room.createdAt]

RECURSIVE SumClients(_)
SumClients(rs) == IF rs = <<>> THEN 0 ELSE Head(rs).clients + SumClients(Tail(rs))

\* line 149 without its test of opts.columns
PushesAddress_Unguarded(o, all) == Len(all) > 0 /\ all[1].publicAddress # Undef

\* line 149: !opts.columns && rooms[0] && rooms[0].publicAddress !== undefined
PushesAddress(o, all) ==
    ~o.columns.def /\ Len(all) > 0 /\ all[1].publicAddress # Undef

\* lines 139-151: columns is opts.columns itself when that is configured,
\* a new array otherwise
columnsOf(o, all) ==
    (IF o.columns.def THEN o.columns.list
     ELSE <<"roomId", "name", "clients", "maxClients", "locked", "elapsedTime">>)
    \o (IF PushesAddress(o, all) THEN <<"publicAddress">> ELSE <<>>)

\* the options after lines 139-151: the push of line 150 reaches
\* opts.columns when columns is that array
optsAfterList(o, all) ==
    IF o.columns.def /\ PushesAddress(o, all)
    THEN [o EXCEPT !.columns.list = Append(@, "publicAddress")]
    ELSE o

\* the application of applyRoomFilters at line 109 left out
filteredRooms_NoTypeFilter(o, all, q) == applyQueryFilter(all, q.filter)

\* lines 109-128
filteredRooms(o, all, q) == applyQueryFilter(applyRoomFilters(all, o.filter), q.filter)

\* the window started at page * limit, one page too far
paginatedRooms_StartsAtPage(o, all, q) ==
    LET sortedRooms == applySorting(filteredRooms(o, all, q), sortOf(o, q), orderOf(o, q))
        startIndex == pageOf(q) * limitOf(o, q)
        endIndex == (pageOf(q) + 1) * limitOf(o, q)
    IN  Slice(sortedRooms, startIndex, endIndex)

\* lines 131-136
paginatedRooms(o, all, q) ==
    LET sortedRooms == applySorting(filteredRooms(o, all, q), sortOf(o, q), orderOf(o, q))
        startIndex == (pageOf(q) - 1) * limitOf(o, q)
        endIndex == pageOf(q) * limitOf(o, q)
    IN  Slice(sortedRooms, startIndex, endIndex)

\* the sum taken over the full filtered list
connectionsOf_FilteredList(o, all, q) == SumClients(filteredRooms(o, all, q))

\* lines 154 and 161: connections += room.clients for each room of the page
connectionsOf(o, all, q) == SumClients(paginatedRooms(o, all, q))

\* filteredRooms is the array the registry returned: applyRoomFilters
\* returns its input without filter options (line 27) and line 115 assigns
\* a new array only when the filter parameter was parsed and applied
SameArray(o, all, q) ==
    /\ ~o.filter.present
    /\ \/ ~FilterGiven(q.filter)
       \/ ParseThrows(q.filter)
       \/ EntriesThrows(q.filter) /\ Len(all) > 0

\* line 52: [...rooms].sort(...) sorts a copy, the array handed in stays
\* as it was
inputAfterSorting(rs, sort, order) == rs

\* lines 158-167: data is a JSON copy of room and the fields are written
\* to data, the room stays as it was
roomAfterFormat(room, now) == room

\* the list the registry returned, after the handler is done with it;
\* nows[j] is the Date.now() read for the j-th room of the page
listAfter(o, all, q, nows) ==
    LET sorted == IF SameArray(o, all, q)
                  THEN inputAfterSorting(all, sortOf(o, q), orderOf(o, q))
                  ELSE all
        page == paginatedRooms(o, all, q)
    IN  [i \in 1..Len(sorted) |->
            IF \E j \in 1..Len(page) : page[j].roomId = sorted[i].roomId
            THEN roomAfterFormat(sorted[i],
                                 nows[CHOOSE j \in 1..Len(page) :
                                          page[j].roomId = sorted[i].roomId])
            ELSE sorted[i]]

\* lines 91-212: all is the list matchMaker.query resolved with, nows are
\* the readings of Date.now() at line 167, one for each room of the page
\* in the order of the page, and env tells whether the query and the
\* probes resolve
rootList(o, all, q, nows, env) ==
    IF env = "throws" THEN handleError("e.message", 500)
    ELSE LET filtered == filteredRooms(o, all, q)
             page == paginatedRooms(o, all, q)
         IN  Json([columns |-> columnsOf(o, all),
                   rooms |-> [i \in 1..Len(page) |-> FormatRoom(page[i], nows[i])],
                   pagination |-> [total |-> Len(filtered),
                                   page |-> pageOf(q),
                                   limit |-> limitOf(o, q),
                                   pages |-> CeilDiv(Len(filtered), limitOf(o, q))],
                   connections |-> connectionsOf(o, all, q),
                   cpu |-> "cpu", memory |-> "memory",
                   actions |-> [room |-> ActionViews(ActionList(o.actions.room)),
                                client |-> ActionViews(ActionList(o.actions.client))],
                   access |-> o.access])

----------------------------------------------------------------------------
(* The registry changing under the router.                                 *)

\* a room is created, one of those numbered in ids: its listing enters the
\* registry
CreateRoom(ids) ==
    /\ req = Idle
    /\ Len(rooms) < MaxRooms
    /\ \E i \in ids :
          /\ \A j \in 1..Len(rooms) : rooms[j].roomId # RoomIds[i]
          /\ rooms' = Append(rooms, Room(RoomIds[i], "GameRoom", 1, FALSE, NoMeta))
    /\ UNCHANGED <<opts, req, res, calls, eng, pending>>

\* a room is disposed: its listing leaves the registry
DisposeRoom ==
    /\ req = Idle
    /\ \E i \in 1..Len(rooms) :
          rooms' = [j \in 1..(Len(rooms) - 1) |-> IF j < i THEN rooms[j] ELSE rooms[j + 1]]
    /\ UNCHANGED <<opts, req, res, calls, eng, pending>>

----------------------------------------------------------------------------
(* The handlers of the router, in the steps their awaits cut them into.  A *)
(* handler runs from its call to its first await, and from the settling of *)
(* an awaited promise to the next await or to its end, in one step each;   *)
(* between two of its steps rooms are created and disposed and other       *)
(* handlers run.  While it is suspended its request and the remote calls   *)
(* it has made are in its frame and no response is sent.  The response a   *)
(* step sends goes to req, res and calls with the request and the remote   *)
(* calls made for it, and stays there until Close.                         *)

\* the handler answers before it reaches an await
Sent(q, r) ==
    /\ req' = q
    /\ res' = r.res
    /\ calls' = r.calls
    /\ UNCHANGED pending

\* the handler of slot s returns to the event loop at an await
Suspended(s, frame) ==
    /\ pending' = [pending EXCEPT ![s] = frame]
    /\ UNCHANGED <<req, res, calls>>

\* the handler of slot s, resumed, sends its response and ends; the list
\* it read stays with the response
Answers(s, response, made) ==
    /\ req' = pending[s].q
    /\ res' = response
    /\ calls' = made
    /\ pending' = [pending EXCEPT
                      ![s] = [Free EXCEPT !.pc = "done", !.snapshot = pending[s].snapshot]]

\* lines 216-225: GET /room up to the denial of line 222 or to the await
\* of line 225, the remote call made
GetRoom(s, roomIds) ==
    /\ req = Idle
    /\ \E roomId \in roomIds :
          LET q == [route |-> "/room", roomId |-> roomId]
              r == roomInspect(opts, roomId, "pending")
          IN  IF r.res # NoResponse
              THEN Sent(q, r)
              ELSE /\ Takes(s)
                   /\ Suspended(s, [Free EXCEPT !.pc = "remote", !.q = q,
                                                !.calls = r.calls,
                                                !.outcomes = RemoteOutcomes(roomId)])
    /\ UNCHANGED <<opts, rooms, eng>>

\* lines 260-324: GET /room/call up to a response sent without a remote
\* call (lines 268, 275, 295, 316 and the catch block of line 326) or to
\* the await of lines 287, 309 or 324, the remote call made; the
\* SyntaxError of line 263 leaves the handler
GetRoomCall(s, roomIds, methods, argsParams) ==
    /\ req = Idle
    /\ \E roomId \in roomIds, method \in methods, args \in argsParams :
          LET q == [route |-> "/room/call", roomId |-> roomId, method |-> method,
                    args |-> args]
          IN  IF ArgsThrow(args)
              THEN \E response \in UncaughtOutcomes : Sent(q, Outcome(response, <<>>))
              ELSE LET r == roomCall(opts, roomId, method, ParsedArgs(args), "pending")
                   IN  IF r.res # NoResponse
                       THEN Sent(q, r)
                       ELSE /\ Takes(s)
                            /\ Suspended(s, [Free EXCEPT
                                                !.pc = "remote", !.q = q,
                                                !.calls = r.calls,
                                                !.outcomes = RemoteOutcomes(roomId)])
    /\ UNCHANGED <<opts, rooms, eng>>

\* the remote call awaited at line 225, 287, 309 or 324 settles: lines
\* 230-252, 292, 313 or 325 answer with its result, or the catch block of
\* line 253 or 326 with the room-unavailable message
RemoteSettles(s) ==
    /\ req = Idle
    /\ pending[s].pc = "remote"
    /\ \E outcome \in pending[s].outcomes :
          LET q == pending[s].q
              r == IF q.route = "/room"
                   THEN roomInspect(opts, q.roomId, outcome)
                   ELSE roomCall(opts, q.roomId, q.method, ParsedArgs(q.args), outcome)
          IN  Answers(s, r.res, r.calls)
    /\ UNCHANGED <<opts, rooms, eng>>

\* the probes of node-os-utils a handler awaits, one after the other:
\* cpu.usage, mem.used, drive.info and netstat.stats in /metrics (lines
\* 335-338), cpu.usage and mem.used in / (lines 173-174)
Probes == {"cpu", "mem", "drive", "netstat"}

NextProbe(pc) ==
    CASE pc = "cpu" -> "mem"
      [] pc = "mem" -> "drive"
      [] pc = "drive" -> "netstat"

LastProbe(route) == IF route = "/" THEN "mem" ELSE "netstat"

\* lines 333-335: GET /metrics up to the await of the first probe
GetMetrics(s) ==
    /\ req = Idle
    /\ Takes(s)
    /\ Suspended(s, [Free EXCEPT !.pc = "cpu", !.q = [route |-> "/metrics"]])
    /\ UNCHANGED <<opts, rooms, eng>>

\* lines 353-355: GET /health has no await
GetHealth ==
    /\ req = Idle
    /\ req' = [route |-> "/health"]
    /\ res' = Json([status |-> "ok"])
    /\ calls' = <<>>
    /\ UNCHANGED <<opts, rooms, eng, pending>>

\* the probe awaited resolves: the handler awaits the next one, or sends
\* its response after the last (lines 177-208 of /, the options it reads
\* there being written by no handler; lines 340-346 of /metrics)
ProbeResolves(s) ==
    /\ req = Idle
    /\ pending[s].pc \in Probes
    /\ LET f == pending[s]
       IN  IF f.pc = LastProbe(f.q.route)
           THEN Answers(s, IF f.q.route = "/" THEN Json(f.data)
                           ELSE Json([cpu |-> "cpu", memory |-> "memory",
                                      drive |-> "drive", netStats |-> "netStats",
                                      timestamp |-> "now"]),
                        <<>>)
           ELSE Suspended(s, [f EXCEPT !.pc = NextProbe(f.pc)])
    /\ UNCHANGED <<opts, rooms, eng>>

\* the probe awaited rejects: the catch block of line 209 or 347 answers
\* with the message of the error
ProbeRejects(s) ==
    /\ req = Idle
    /\ pending[s].pc \in Probes
    /\ LET f == pending[s]
       IN  Answers(s, IF f.q.route = "/" THEN rootList(opts, f.snapshot, f.q, <<>>, "throws")
                      ELSE handleError("e.message", 500),
                   <<>>)
    /\ UNCHANGED <<opts, rooms, eng>>

\* the times Date.now() gives: two where requests are compared, one
\* elsewhere
Times == {7, 8}
OneTime == {7}

\* the readings of Date.now() while a page of n rooms is formatted: line
\* 167 runs once for each room of the page, and the clock of the machine
\* may tick, or be set, between two of them
Readings(n, times) == [1..n -> times]

\* the parameters of a GET / request
Query(filter, sort, order, page, limit) ==
    [route |-> "/", filter |-> filter, sort |-> sort, order |-> order,
     page |-> page, limit |-> limit]

\* lines 90-106: GET / reads its parameters and awaits matchMaker.query
GetRoot(s, queries) ==
    /\ req = Idle
    /\ Takes(s)
    /\ \E q \in queries : Suspended(s, [Free EXCEPT !.pc = "query", !.q = q])
    /\ UNCHANGED <<opts, rooms, eng>>

\* line 106 resolves with the list as the registry has it now; lines
\* 109-170 filter, sort, cut and format it, each room of the page with
\* its own reading of Date.now() out of times, and build the columns, up
\* to the await of line 173
QueryResolves(s, times) ==
    /\ req = Idle
    /\ pending[s].pc = "query"
    /\ \E nows \in Readings(Len(paginatedRooms(opts, rooms, pending[s].q)), times) :
          /\ Suspended(s, [pending[s] EXCEPT
                              !.pc = "cpu", !.snapshot = rooms,
                              !.data = rootList(opts, rooms, pending[s].q, nows,
                                                "resolves").data])
          /\ rooms' = listAfter(opts, rooms, pending[s].q, nows)
          /\ opts' = optsAfterList(opts, rooms)
    /\ UNCHANGED eng

\* line 106 rejects: the catch block of line 209 answers
QueryRejects(s) ==
    /\ req = Idle
    /\ pending[s].pc = "query"
    /\ Answers(s, rootList(opts, rooms, pending[s].q, <<>>, "throws"), <<>>)
    /\ UNCHANGED <<opts, rooms, eng>>

\* the exchange is over: the request, its response and the frame of its
\* handler are dropped.  Nothing is dropped, and nothing runs, once the
\* process has ended.
Close ==
    /\ req # Idle
    /\ res # ProcessExit
    /\ req' = Idle
    /\ res' = NoResponse
    /\ calls' = <<>>
    /\ pending' = [s \in Slots |-> IF pending[s].pc = "done" THEN Free ELSE pending[s]]
    /\ UNCHANGED <<opts, rooms, eng>>

----------------------------------------------------------------------------
(* Spec: the router of getAPI answering /room and /room/call under the     *)
(* access policies, and /metrics, /health and / beside them, while a room  *)
(* is created and disposed.  Up to two handlers are suspended at a time.   *)
(* A request that arrives while no handler is suspended is for any room    *)
(* id, and a call is of any method on room r1 or of a method without       *)
(* prefix on any other room id; a request that arrives beside a suspended  *)
(* handler takes its parameters from the Beside sets.                      *)

\* the GET / request of Spec: no parameter
PlainQueries ==
    { Query(FilterParam("absent", <<>>), "", "", NumberParam("absent", 0),
            NumberParam("absent", 0)) }

\* the room of Spec
OneRoom == {1}

\* the methods without a custom prefix
BareMethods == { Str(m) : m \in BareTokens }

\* the parameters of a request that arrives beside a suspended handler
BesideRoomIds == {Str("r1")}

BesideMethods == {Str("restartRoom"), Str("disconnect")}

BesideArgs == {ArgsParam("absent", <<>>), ArgsParam("invalid", <<>>)}

Init ==
    /\ opts \in { OptsOf(a, NoFilterOptions, acts[1], acts[2], NoRoomList) :
                    a \in AccessSet, acts \in ActionSets }
    /\ rooms = <<>>
    /\ req = Idle
    /\ res = NoResponse
    /\ calls = <<>>
    /\ eng = NoCall
    /\ pending = NoPending

Next ==
    \/ CreateRoom(OneRoom)
    \/ DisposeRoom
    \/ \E s \in Slots : GetRoom(s, IF Alone THEN RoomIdParams ELSE BesideRoomIds)
    \/ \E s \in Slots : GetRoomCall(s, BesideRoomIds,
                                    IF Alone THEN MethodParams ELSE BesideMethods,
                                    IF Alone THEN ArgsParams ELSE BesideArgs)
    \/ /\ Alone
       /\ \E s \in Slots : GetRoomCall(s, RoomIdParams \ BesideRoomIds,
                                       BareMethods, ArgsParams)
    \/ \E s \in Slots : RemoteSettles(s)
    \/ \E s \in Slots : GetMetrics(s)
    \/ \E s \in Slots : GetRoot(s, PlainQueries)
    \/ \E s \in Slots : QueryResolves(s, OneTime)
    \/ \E s \in Slots : QueryRejects(s)
    \/ \E s \in Slots : ProbeResolves(s)
    \/ \E s \in Slots : ProbeRejects(s)
    \/ GetHealth
    \/ Close

Spec == Init /\ [][Next]_vars

----------------------------------------------------------------------------
(* SpecList: the router answering GET / for every filter, sort, order,     *)
(* page and limit over a registry whose rooms are disposed one by one,     *)
(* and /room beside it.  Up to two handlers are suspended at a time.  A    *)
(* GET / request that arrives while no handler is suspended has any of the *)
(* parameters below; one that arrives beside a suspended handler has no    *)
(* parameter.                                                              *)

ListShapes == {1, 2}

ListFilterOptions ==
    { NoFilterOptions,
      FilterOptionsOf([def |-> TRUE, v |-> {"GameRoom"}], [def |-> FALSE, v |-> {}]),
      FilterOptionsOf([def |-> TRUE, v |-> {}], [def |-> TRUE, v |-> {"GameRoom"}]),
      FilterOptionsOf([def |-> TRUE, v |-> {"GameRoom", "LobbyRoom"}],
                      [def |-> TRUE, v |-> {"LobbyRoom"}]) }

ListRoomLists ==
    { NoRoomList, [defaultSort |-> "clients", defaultOrder |-> "desc", pageSize |-> 1] }

ListFilters ==
    { FilterParam("absent", <<>>),
      FilterParam("invalid", <<>>),
      FilterParam("null", <<>>),
      FilterParam("string", << <<"0", Str("e")>>, <<"1", Str("u")>> >>),
      FilterParam("object", << <<"name", Str("GameRoom")>> >>),
      FilterParam("object", << <<"score", Num(1)>> >>) }

ListSorts == {"", "clients"}

ListOrders == {"", "desc"}

PageParams ==
    { NumberParam("absent", 0) } \cup { NumberParam("int", n) : n \in {0, 2} }

LimitParams ==
    { NumberParam("absent", 0) } \cup { NumberParam("int", n) : n \in {-1, 1, 2} }

\* the GET / requests of SpecList: each filter of the list sorted by
\* clients, and each sort and order, with and without a page size of one,
\* and each page and limit of the list sorted by clients
ListQueries ==
    { Query(filter, "clients", "", NumberParam("absent", 0), limit) :
        filter \in ListFilters,
        limit \in {NumberParam("absent", 0), NumberParam("int", 1)} }
    \cup { Query(FilterParam("absent", <<>>), sort, order, NumberParam("absent", 0), limit) :
             sort \in ListSorts, order \in ListOrders,
             limit \in {NumberParam("absent", 0), NumberParam("int", 1)} }
    \cup { Query(FilterParam("absent", <<>>), "clients", "", page, limit) :
             page \in PageParams, limit \in LimitParams }

\* a configured column list
ListColumns == [def |-> TRUE, list |-> <<"roomId", "clients">>]

\* the options of SpecList: each type filter, the defaults of the room
\* list, and a configured column list
ListOpts ==
    { OptsOf(NoAccess, fo, RoomActions, ClientActions, NoRoomList) :
        fo \in ListFilterOptions }
    \cup { OptsOf(NoAccess, NoFilterOptions, RoomActions, ClientActions, rl) :
             rl \in ListRoomLists }
    \cup { [OptsOf(NoAccess, NoFilterOptions, RoomActions, ClientActions,
                   NoRoomList) EXCEPT !.columns = ListColumns] }

InitList ==
    /\ opts \in ListOpts
    /\ rooms \in RoomLists(MaxRooms, ListShapes)
    /\ req = Idle
    /\ res = NoResponse
    /\ calls = <<>>
    /\ eng = NoCall
    /\ pending = NoPending

NextList ==
    \/ \E s \in Slots : GetRoot(s, IF Alone THEN ListQueries ELSE PlainQueries)
    \/ \E s \in Slots : QueryResolves(s, OneTime)
    \/ \E s \in Slots : QueryRejects(s)
    \/ \E s \in Slots : ProbeResolves(s)
    \/ \E s \in Slots : ProbeRejects(s)
    \/ \E s \in Slots : GetRoom(s, BesideRoomIds)
    \/ \E s \in Slots : RemoteSettles(s)
    \/ DisposeRoom
    \/ Close

SpecList == InitList /\ [][NextList]_vars

----------------------------------------------------------------------------
(* SpecAsync: two handlers of the router suspended at a time, each of /,   *)
(* /room, /room/call or /metrics, while rooms are created and disposed and *)
(* /health is answered.                                                    *)

\* the GET / requests of SpecAsync: a negative limit, and a limit of two
AsyncQueries ==
    { Query(FilterParam("absent", <<>>), "", "", NumberParam("absent", 0),
            NumberParam("int", limit)) : limit \in {-1, 2} }

AsyncRoomIds == {Str("r1")}

AsyncMethods == {Str("restartRoom")}

AsyncArgs == {ArgsParam("absent", <<>>)}

InitAsync ==
    /\ opts = NoOpts
    /\ rooms = <<>>
    /\ req = Idle
    /\ res = NoResponse
    /\ calls = <<>>
    /\ eng = NoCall
    /\ pending = NoPending

NextAsync ==
    \/ \E s \in Slots : GetRoot(s, AsyncQueries)
    \/ \E s \in Slots : QueryResolves(s, Times)
    \/ \E s \in Slots : QueryRejects(s)
    \/ \E s \in Slots : ProbeResolves(s)
    \/ \E s \in Slots : ProbeRejects(s)
    \/ \E s \in Slots : GetRoom(s, AsyncRoomIds)
    \/ \E s \in Slots : GetRoomCall(s, AsyncRoomIds, AsyncMethods, AsyncArgs)
    \/ \E s \in Slots : RemoteSettles(s)
    \/ \E s \in Slots : GetMetrics(s)
    \/ GetHealth
    \/ CreateRoom(1..MaxRooms)
    \/ DisposeRoom
    \/ Close

SpecAsync == InitAsync /\ [][NextAsync]_vars

----------------------------------------------------------------------------
(* Properties of the access guards, under Spec.                            *)

\* a /room/call request whose args parameter is absent or JSON, the form
\* the interface gives it
CallRequest(method) ==
    /\ req.route = "/room/call"
    /\ ~ArgsThrow(req.args)
    /\ StrictEq(req.method, Str(method))

\* C1: /room/call with method "disconnect" and allowRoomDisposal = false
\* is answered 403 {error: true, message: "Room disposal is not allowed"}
\* and makes no remote room call, whatever the roomId and the args.
C1_DisposalDenied ==
    (CallRequest("disconnect") /\ opts.access.allowRoomDisposal = "false") =>
        /\ res.status = 403
        /\ res.error
        /\ res.message = "Room disposal is not allowed"
        /\ calls = <<>>

\* the denied disconnect names a live room and carries arguments
C1_Witness ==
    /\ CallRequest("disconnect")
    /\ opts.access.allowRoomDisposal = "false"
    /\ RoomLive(req.roomId)
    /\ req.args.kind = "array"
    /\ Len(req.args.items) > 0
    /\ res.status = 403

\* C2: a state-mutating call ("_updateRoomState") through /room/call with
\* allowStateModification = false is answered 403 and makes no remote
\* room call.
C2_ModificationDenied ==
    (CallRequest("_updateRoomState") /\ opts.access.allowStateModification = "false") =>
        /\ res.status = 403
        /\ calls = <<>>

\* C3: /room with allowStateInspection = false is answered 403 without a
\* getInspectData call, for a live or a disposed room; with the flag true
\* or unset exactly one getInspectData call is made, for the roomId asked.
C3_InspectionGuard ==
    req.route = "/room" =>
        IF opts.access.allowStateInspection = "false"
        THEN res.status = 403 /\ calls = <<>>
        ELSE calls = << RemoteCall(req.roomId, "getInspectData", NoArgs) >>

\* inspection of a live room is denied while every other flag allows
C3_Witness ==
    /\ req.route = "/room"
    /\ opts.access = AccessOf("false", "true", "true", "true")
    /\ RoomLive(req.roomId)
    /\ res.status = 403

\* C4: /room/call with method "_sendMessageToClient" is answered 403
\* without a remote room call exactly when allowClientMessages = false:
\* the decision depends on the method and the policy only, not on the
\* roomId nor on the args.
C4_MessagesDenied ==
    CallRequest("_sendMessageToClient") =>
        IF opts.access.allowClientMessages = "false"
        THEN res.status = 403 /\ calls = <<>>
        ELSE res.status # 403 /\ Len(calls) = 1

\* the denied message names a room that is gone, where a dispatch would
\* have answered 500
C4_Witness ==
    /\ CallRequest("_sendMessageToClient")
    /\ opts.access.allowClientMessages = "false"
    /\ opts.access.allowRoomDisposal = "true"
    /\ ~RoomLive(req.roomId)
    /\ req.args.kind = "array"
    /\ Len(req.args.items) = 2
    /\ res.status = 403
    /\ calls = <<>>

----------------------------------------------------------------------------
(* Properties of the dispatch of /room/call, under Spec.                   *)

\* a /room/call request whose args parameter is absent or JSON and whose
\* method is one of the given tokens
CallWith(tokens) ==
    /\ req.route = "/room/call"
    /\ ~ArgsThrow(req.args)
    /\ req.method.t = "string"
    /\ req.method.s \in tokens

\* the list registers the id with a handler name
Registers(actions, id) ==
    /\ actions.def
    /\ \E i \in 1..Len(actions.list) :
          actions.list[i].id = id /\ actions.list[i].handler # ""

\* the handler name the list registers for the id
HandlerOf(actions, id) ==
    LET i == CHOOSE i \in 1..Len(actions.list) : actions.list[i].id = id
    IN  actions.list[i].handler

\* the response is the result of the one remote call made, or the 500 of
\* a remote call that failed
AnswersWithResult ==
    /\ Len(calls) = 1
    /\ \/ res = Json(RemoteData(calls[1]))
       \/ res = handleError(UnavailableRoomError(req.roomId), 500)

\* C17: /room/call with method "customAction:<id>", <id> registered in
\* actions.room with a handler name, makes exactly one remote call, to the
\* roomId of the request, of that handler name (not the id) with the args
\* of the caller and nothing else, and answers with the result of the call.
C17_RoomActionDispatch ==
    (/\ CallWith(RoomTokens)
     /\ Registers(opts.actions.room, AfterRoomPrefix(req.method.s))) =>
        /\ calls = << RemoteCall(req.roomId,
                                 HandlerOf(opts.actions.room, AfterRoomPrefix(req.method.s)),
                                 ParsedArgs(req.args)) >>
        /\ AnswersWithResult

\* "customAction:restart" on a live room with two args: restartRoom is
\* called with the two args and its result is the response
C17_Witness ==
    /\ CallWith({"customAction:restart"})
    /\ RoomLive(req.roomId)
    /\ Len(req.args.items) = 2
    /\ Len(calls) = 1
    /\ calls[1].method = "restartRoom"
    /\ calls[1].args.items = req.args.items
    /\ res.status = 200
    /\ res.data.returnedBy = calls[1]

\* the tokens "customClientAction:<id>:<clientId>" with both parts
FullClientTokens == { t \in ClientTokens : Len(ClientParts(t)) = 2 }

\* the args parameter is absent or a JSON array
ArrayArgs == req.args.kind \in {"absent", "array"}

\* C18: /room/call with method "customClientAction:<id>:<clientId>" and an
\* args array calls the handler registered for <id> in actions.client on
\* the roomId of the request with [clientId] followed by the args in their
\* order; an <id> that only actions.room registers is not found, and
\* "customAction:<id>" with an <id> that only actions.client registers is
\* not found either: 404 and no remote call.
C18_ClientActionDispatch ==
    /\ (CallWith(FullClientTokens) /\ ArrayArgs) =>
          LET id == ClientParts(req.method.s)[1]
              clientId == Str(ClientParts(req.method.s)[2])
          IN  IF Registers(opts.actions.client, id)
              THEN /\ calls = << RemoteCall(req.roomId, HandlerOf(opts.actions.client, id),
                                            Args("array", <<clientId>>
                                                          \o ParsedArgs(req.args).items)) >>
                   /\ AnswersWithResult
              ELSE res.status = 404 /\ calls = <<>>
    /\ (/\ CallWith(RoomTokens)
        /\ ~Registers(opts.actions.room, AfterRoomPrefix(req.method.s))) =>
          res.status = 404 /\ calls = <<>>

\* "customClientAction:ping:c1" with args ["a","b"] on a live room calls
\* pingClient with ["c1","a","b"]
C18_Witness ==
    /\ CallWith({"customClientAction:ping:c1"})
    /\ RoomLive(req.roomId)
    /\ req.args.kind = "array"
    /\ Len(req.args.items) = 2
    /\ Len(calls) = 1
    /\ calls[1].method = "pingClient"
    /\ calls[1].args.items = <<Str("c1")>> \o req.args.items
    /\ res.status = 200

\* no action of the list has the id
IdAbsent(actions, id) ==
    ~actions.def \/ \A i \in 1..Len(actions.list) : actions.list[i].id # id

\* C19: /room/call with a custom token whose id no action of the list of
\* its scope has is answered 404 with "Custom action <id> not found" (room
\* scope) or "Custom client action <id> not found" (client scope), and
\* makes no remote room call.
C19_UnknownActionNotFound ==
    /\ (/\ CallWith(RoomTokens)
        /\ IdAbsent(opts.actions.room, AfterRoomPrefix(req.method.s))) =>
          /\ res = handleError("Custom action " \o AfterRoomPrefix(req.method.s)
                                \o " not found", 404)
          /\ calls = <<>>
    /\ (/\ CallWith(ClientTokens)
        /\ IdAbsent(opts.actions.client, ClientParts(req.method.s)[1])) =>
          /\ res = handleError("Custom client action " \o ClientParts(req.method.s)[1]
                                \o " not found", 404)
          /\ calls = <<>>

\* "customClientAction:restart:c1" on a live room, while actions.room (not
\* actions.client) registers restart, is answered 404 without a call
C19_Witness ==
    /\ CallWith({"customClientAction:restart:c1"})
    /\ RoomLive(req.roomId)
    /\ Registers(opts.actions.room, "restart")
    /\ res.status = 404
    /\ res.message = "Custom client action restart not found"
    /\ calls = <<>>

\* the guards the specification gives /room/call do not deny the method
NotDenied(method) ==
    /\ ~(method = "disconnect" /\ opts.access.allowRoomDisposal = "false")
    /\ ~(method = "_sendMessageToClient" /\ opts.access.allowClientMessages = "false")
    /\ ~(method = "_updateRoomState" /\ opts.access.allowStateModification = "false")

\* C20: a /room or /room/call request makes at most one remote room call,
\* addressed to the roomId of the request, whether the call resolves or
\* fails (and while it is awaited); a bare method token that no guard
\* denies goes to the registry unchanged, with the args of the caller.
C20_AtMostOneCall ==
    /\ req.route \in {"/room", "/room/call"} =>
          /\ Len(calls) <= 1
          /\ \A i \in 1..Len(calls) : calls[i].roomId = req.roomId
    /\ \A s \in Slots :
          pending[s].pc = "remote" =>
              /\ Len(pending[s].calls) = 1
              /\ pending[s].calls[1].roomId = pending[s].q.roomId
    /\ (CallWith(BareTokens) /\ NotDenied(req.method.s)) =>
          calls = << RemoteCall(req.roomId, req.method.s, ParsedArgs(req.args)) >>

\* a bare method called on a room that is gone: one call, answered 500
C20_Witness ==
    /\ CallWith({"restartRoom"})
    /\ ~RoomLive(req.roomId)
    /\ req.roomId = Str("r9")
    /\ Len(req.args.items) = 2
    /\ calls = << RemoteCall(Str("r9"), "restartRoom", ParsedArgs(req.args)) >>
    /\ res.status = 500

\* a remote call of the request was made and did not resolve
RemoteCallFailed ==
    /\ req.route \in {"/room", "/room/call"}
    /\ Len(calls) = 1
    /\ res.status # 200

\* C21: a /room or /room/call request whose remote call fails is answered
\* 500 with {error: true, message: "@colyseus/monitor: room X is not
\* available anymore."}, X the roomId of the request, for built-in methods
\* and custom actions alike.
C21_RoomUnavailable ==
    (RemoteCallFailed /\ req.roomId.t = "string") =>
        res = handleError("@colyseus/monitor: room " \o req.roomId.s
                          \o " is not available anymore.", 500)

\* the handler sent a response: a body with status 200, or the error body
\* of handleError with another status
HandlerAnswered ==
    /\ res.status \in {200, 403, 404, 500}
    /\ res.error <=> res.status # 200

\* C22: every request, whatever its parameters (a missing method and an
\* args text that is not JSON included) and whatever the registry does, is
\* answered by its handler with one response; no exception leaves the
\* handler and no request stays without a response.
C22_NothingIsFatal ==
    req.route # "idle" => HandlerAnswered

\* the message of the TypeError of method.startsWith on a missing method
StartsWithOfUndefined == "Cannot read properties of undefined (reading 'startsWith')"

\* C23: an exception that is not a denial, an unknown action or a failed
\* remote call is answered 500 with the message of the exception: the
\* failure of a probe of /metrics, the TypeError of a /room/call request
\* without method, the SyntaxError of an args text that is not JSON.
C23_InternalErrorRawMessage ==
    /\ (req.route = "/metrics" /\ res.status # 200) =>
          res = handleError("e.message", 500)
    /\ (/\ req.route = "/room/call"
        /\ ~ArgsThrow(req.args)
        /\ req.method.t = "undefined") =>
          res = handleError(StartsWithOfUndefined, 500)
    /\ (req.route = "/room/call" /\ ArgsThrow(req.args)) =>
          res.status = 500 /\ res.error

\* the action of the list with the id
ActionOf(actions, id) ==
    actions.list[CHOOSE i \in 1..Len(actions.list) : actions.list[i].id = id]

\* C25: a /room/call request for a registered custom action, room-scoped
\* or client-scoped, is dispatched to its handler for every value of the
\* four access flags and of the action's confirmRequired flag: it is never
\* answered 403 and its one remote call is that of the handler.
C25_CustomActionsUnguarded ==
    /\ (/\ CallWith(RoomTokens)
        /\ Registers(opts.actions.room, AfterRoomPrefix(req.method.s))) =>
          /\ res.status \in {200, 500}
          /\ Len(calls) = 1
          /\ calls[1].method = ActionOf(opts.actions.room,
                                        AfterRoomPrefix(req.method.s)).handler
    /\ (/\ CallWith(FullClientTokens)
        /\ ArrayArgs
        /\ Registers(opts.actions.client, ClientParts(req.method.s)[1])) =>
          /\ res.status \in {200, 500}
          /\ Len(calls) = 1
          /\ calls[1].method = ActionOf(opts.actions.client,
                                        ClientParts(req.method.s)[1]).handler

\* with the four flags false, an action that requires confirmation is
\* dispatched on a live room
C25_Witness ==
    /\ CallWith(RoomTokens)
    /\ opts.access = AccessOf("false", "false", "false", "false")
    /\ Registers(opts.actions.room, AfterRoomPrefix(req.method.s))
    /\ ActionOf(opts.actions.room, AfterRoomPrefix(req.method.s)).confirmRequired
    /\ RoomLive(req.roomId)
    /\ res.status = 200
    /\ Len(calls) = 1

\* the request is for a custom action whose registered handler is the
\* method
CustomActionFor(method) ==
    \/ /\ CallWith(RoomTokens)
       /\ Registers(opts.actions.room, AfterRoomPrefix(req.method.s))
       /\ ActionOf(opts.actions.room, AfterRoomPrefix(req.method.s)).handler = method
    \/ /\ CallWith(ClientTokens)
       /\ Registers(opts.actions.client, ClientParts(req.method.s)[1])
       /\ ActionOf(opts.actions.client, ClientParts(req.method.s)[1]).handler = method

\* C27 as stated: with allowRoomDisposal = false no /room/call request,
\* bare or custom, with any registered action list, makes a remote call
\* of "disconnect".
C27_DisconnectNeverInvoked ==
    (req.route = "/room/call" /\ opts.access.allowRoomDisposal = "false") =>
        \A i \in 1..Len(calls) : calls[i].method # "disconnect"

\* C27 amended: with allowRoomDisposal = false the only /room/call
\* requests that make a remote call of "disconnect" are those for a
\* registered custom action whose handler name is "disconnect"; no bare
\* method and no other custom action does.
C27_DisconnectOnlyByCustomAction ==
    (req.route = "/room/call" /\ opts.access.allowRoomDisposal = "false") =>
        \A i \in 1..Len(calls) :
            calls[i].method = "disconnect" => CustomActionFor("disconnect")

\* with allowRoomDisposal = false, "customAction:kick", registered with
\* the handler "disconnect", disconnects a live room
C27_Witness ==
    /\ CallWith({"customAction:kick"})
    /\ opts.access.allowRoomDisposal = "false"
    /\ RoomLive(req.roomId)
    /\ Len(calls) = 1
    /\ calls[1].method = "disconnect"
    /\ res.status = 200

----------------------------------------------------------------------------
(* Properties of GET /, under SpecList.                                    *)

\* the list matchMaker.query resolved with for the request answered, the
\* frame of its handler being the one that is done
Queried == pending[CHOOSE s \in Slots : pending[s].pc = "done"].snapshot

RECURSIVE CountPassing(_, _)
CountPassing(rs, fo) ==
    IF rs = <<>> THEN 0
    ELSE (IF PassesTypeFilter(Head(rs), fo) THEN 1 ELSE 0) + CountPassing(Tail(rs), fo)

\* C6: every room in the rooms array of a GET / response passes the
\* configured include/exclude type filter, and pagination.total counts only
\* such rooms (all of them when no query filter applies), for every query
\* filter (malformed ones included), sort, order, page and limit.
C6_TypeFilterAlways ==
    (req.route = "/" /\ res.status = 200) =>
        /\ \A i \in 1..Len(res.data.rooms) :
              /\ PassesTypeFilter(res.data.rooms[i], opts.filter)
              /\ \E j \in 1..Len(Queried) : Queried[j].roomId = res.data.rooms[i].roomId
        /\ res.data.pagination.total <= CountPassing(Queried, opts.filter)
        /\ req.filter.kind \in {"absent", "invalid"} =>
              res.data.pagination.total = CountPassing(Queried, opts.filter)

\* a request with a malformed filter, a sort key and a limit is
\* answered with a room while the type filter hides another room
C6_Witness ==
    /\ req.route = "/"
    /\ res.status = 200
    /\ req.filter.kind = "invalid"
    /\ req.sort # ""
    /\ req.limit.kind = "int"
    /\ opts.filter.present
    /\ Len(res.data.rooms) > 0
    /\ res.data.pagination.total < Len(Queried)

IdsOf(rs) == [i \in 1..Len(rs) |-> rs[i].roomId]

\* C8: a filter parameter that is text but cannot be parsed as a mapping
\* is answered as the same request without a filter parameter is: the
\* same rooms and the same pagination.total.
C8_MalformedFilterIgnored ==
    (/\ req.route = "/"
     /\ res.status = 200
     /\ req.filter.kind \in {"invalid", "null", "number", "string", "array"}) =>
        LET bare == [req EXCEPT !.filter = FilterParam("absent", <<>>)]
        IN  /\ IdsOf(res.data.rooms) = IdsOf(paginatedRooms(opts, Queried, bare))
            /\ res.data.pagination.total = Len(filteredRooms(opts, Queried, bare))

\* the filtered list of the request in the order the request asks for
SortedFiltered ==
    applySorting(filteredRooms(opts, Queried, req), sortOf(opts, req), orderOf(opts, req))

\* a GET / request that was answered with a room list
Listed == req.route = "/" /\ res.status = 200

\* C12: with page >= 1 and limit >= 1 the rooms of a GET / response are the
\* rooms of the sorted, filtered list at the zero-based indices
\* (page-1)*limit up to but excluding page*limit, in that order, so never
\* more than limit rooms.
C12_PaginationWindow ==
    (Listed /\ res.data.pagination.page >= 1 /\ res.data.pagination.limit >= 1) =>
        LET page == res.data.pagination.page
            limit == res.data.pagination.limit
            first == (page - 1) * limit
            sorted == SortedFiltered
            rest == Len(sorted) - first
            count == IF rest <= 0 THEN 0 ELSE IF rest < limit THEN rest ELSE limit
        IN  /\ Len(res.data.rooms) = count
            /\ Len(res.data.rooms) <= limit
            /\ \A i \in 1..count :
                  res.data.rooms[i].roomId = sorted[first + i].roomId

\* page 2 of a list of two rooms sorted by clients "desc" with limit 1 is
\* the room with the fewer clients, which stood first in the registry
C12_Witness ==
    /\ Listed
    /\ res.data.pagination.page = 2
    /\ res.data.pagination.limit = 1
    /\ req.sort = "clients"
    /\ orderOf(opts, req) = "desc"
    /\ Len(Queried) = 2
    /\ Len(res.data.rooms) = 1
    /\ res.data.rooms[1].roomId = Queried[1].roomId
    /\ Queried[1].clients < Queried[2].clients

\* the ad-hoc filter of the request keeps the room: a parameter that is
\* absent or does not parse to a value with entries keeps every room
AdHocKeeps(room, filter) ==
    filter.kind \in {"absent", "empty", "invalid", "null", "number"}
    \/ \A i \in 1..Len(filter.entries) :
           PairHolds(room, filter.entries[i][1], filter.entries[i][2])

\* the number of rooms of the registry that pass both filters
FilteredCount ==
    Cardinality({ j \in 1..Len(Queried) :
                    /\ PassesTypeFilter(Queried[j], opts.filter)
                    /\ AdHocKeeps(Queried[j], req.filter) })

\* C13: pagination.total of a GET / response is the number of rooms of the
\* registry that pass the type filter and the ad-hoc filter, a number that
\* depends on the registry, the configuration and the filter only (not on
\* page, limit, sort or order), and pagination.pages is the least integer
\* not below total / limit.
C13_TotalAndPages ==
    Listed =>
        LET total == res.data.pagination.total
            limit == res.data.pagination.limit
            pages == res.data.pagination.pages
        IN  /\ total = FilteredCount
            /\ limit > 0 => ((pages - 1) * limit < total /\ total <= pages * limit)
            /\ limit < 0 => (pages * limit <= total /\ total < (pages - 1) * limit)

\* one of two rooms passes the type filter; with limit 2 and a sort key
\* page 2 is empty while total is 1 and pages is 1
C13_Witness ==
    /\ Listed
    /\ Len(Queried) = 2
    /\ opts.filter.present
    /\ req.sort # ""
    /\ res.data.pagination.page = 2
    /\ res.data.pagination.limit = 2
    /\ res.data.pagination.total = 1
    /\ res.data.pagination.pages = 1
    /\ res.data.rooms = <<>>

\* C14: a GET / response whose page is greater than its pagination.pages
\* has an empty rooms array and the total of the filtered list.
C14_PageBeyondPagesIsEmpty ==
    (Listed /\ res.data.pagination.page > res.data.pagination.pages) =>
        /\ res.data.rooms = <<>>
        /\ res.data.pagination.total = FilteredCount

\* the sum of the clients fields of the rooms of a response
ClientsOnPage(listed) ==
    LET RECURSIVE UpTo(_)
        UpTo(n) == IF n = 0 THEN 0 ELSE listed[n].clients + UpTo(n - 1)
    IN  UpTo(Len(listed))

\* C15: connections of a GET / response is the sum of clients over the
\* rooms of that response's rooms array, 0 when the array is empty, and
\* not the sum over the full filtered list.
C15_ConnectionsOfPage ==
    Listed => res.data.connections = ClientsOnPage(res.data.rooms)

\* a page of one room out of a filtered list of two: connections is the
\* clients of that room, less than the sum over both
C15_Witness ==
    /\ Listed
    /\ Len(res.data.rooms) = 1
    /\ res.data.pagination.total = 2
    /\ res.data.connections = res.data.rooms[1].clients
    /\ res.data.connections < Queried[1].clients + Queried[2].clients

\* the request of slot t, suspended at a probe with its body built,
\* repeats the request answered: the same parameters, and a list from the
\* registry that is the list of the request answered
Repeated(t) ==
    /\ Listed
    /\ pending[t].pc \in Probes
    /\ pending[t].q = req
    /\ pending[t].snapshot = Queried

\* the rooms of a response without their elapsedTime
Timeless(listed) == [i \in 1..Len(listed) |-> [listed[i] EXCEPT !.elapsedTime = 0]]

\* C16 as stated: the same GET / request issued twice with no change of
\* the registry in between is answered with identical rooms arrays and
\* identical pagination.total.
C16_RepeatIsIdentical ==
    \A t \in Slots :
        Repeated(t) =>
            /\ pending[t].data.rooms = res.data.rooms
            /\ pending[t].data.pagination.total = res.data.pagination.total

\* C16 amended: the same GET / request issued twice with no change of the
\* registry in between is answered with the same pagination.total and the
\* same rooms in the same order, equal in every field but elapsedTime,
\* which is the time of the request less the room's creation time.
C16_RepeatIsIdenticalButElapsedTime ==
    \A t \in Slots :
        Repeated(t) =>
            /\ Timeless(pending[t].data.rooms) = Timeless(res.data.rooms)
            /\ pending[t].data.pagination.total = res.data.pagination.total

\* a request answered with two rooms while its repetition, which read the
\* same two rooms at a later time, waits for its probes
C16_Witness ==
    /\ Listed
    /\ Len(res.data.rooms) = 2
    /\ res.data.rooms[1].elapsedTime = 7
    /\ \E t \in Slots :
          /\ Repeated(t)
          /\ Len(pending[t].data.rooms) = 2
          /\ pending[t].data.rooms[1].elapsedTime = 8

\* C24: the page and the page size of every GET / request are at least 1:
\* page is 1 and limit is ui.roomList.pageSize (else 100) when the
\* parameter is absent, zero or not a number, and no parameter value gives
\* a window that starts before the list or takes rooms from its end.
C24_QuerySpecValid ==
    Listed =>
        /\ res.data.pagination.page >= 1
        /\ res.data.pagination.limit >= 1
        /\ (req.page.kind # "int" \/ req.page.n = 0) => res.data.pagination.page = 1
        /\ (req.limit.kind # "int" \/ req.limit.n = 0) =>
              res.data.pagination.limit =
                  (IF opts.roomList.pageSize # 0 THEN opts.roomList.pageSize ELSE 100)

\* C26: handling a request leaves the options (access policy, actions,
\* columns, filter options) as they were, and handling GET / leaves the
\* room list obtained from the registry and its rooms as they were:
\* filtering and sorting work on copies, and locked, maxClients and
\* elapsedTime are written to a per-request copy of the room.
C26_RequestPathFrame ==
    [][/\ opts' = opts
       /\ (pending' # pending \/ req' # req) => rooms' = rooms]_vars

\* a GET / answered with configured columns, the first room of the
\* registry having a publicAddress, and the two rooms sorted into the
\* reverse of their registry order, which is still r1, r2
C26_Witness ==
    /\ Listed
    /\ opts.columns.def
    /\ res.data.columns = <<"roomId", "clients">>
    /\ rooms = Queried
    /\ Len(rooms) = 2
    /\ rooms[1].publicAddress # Undef
    /\ IdsOf(rooms) = <<"r1", "r2">>
    /\ IdsOf(res.data.rooms) = <<"r2", "r1">>
    /\ res.data.rooms[1].maxClients = "4"
    /\ rooms[1].maxClients = 4

\* the rooms array of the request of the state asked for page p instead
PageNumbered(p) ==
    paginatedRooms(opts, Queried, [req EXCEPT !.page = NumberParam("int", p)])

\* the rooms arrays of pages 1..n one after the other
RECURSIVE PagesUpTo(_)
PagesUpTo(n) == IF n = 0 THEN <<>> ELSE PagesUpTo(n - 1) \o PageNumbered(n)

\* C28: for limit >= 1 the rooms arrays of pages 1..pagination.pages, one
\* after the other, are the sorted filtered list: every filtered room is
\* on exactly one page, the lengths of the pages sum to pagination.total,
\* and the response of the state is one of these pages.
C28_PagesPartition ==
    (Listed /\ res.data.pagination.limit >= 1) =>
        LET pages == res.data.pagination.pages
            page == res.data.pagination.page
            all == PagesUpTo(pages)
        IN  /\ all = SortedFiltered
            /\ Len(all) = res.data.pagination.total
            /\ \A i, j \in 1..Len(all) : i # j => all[i].roomId # all[j].roomId
            /\ (page >= 1 /\ page <= pages) =>
                  IdsOf(res.data.rooms) = IdsOf(PageNumbered(page))

\* two filtered rooms on two pages of one room each, the second page
\* answered
C28_Witness ==
    /\ Listed
    /\ res.data.pagination.limit = 1
    /\ res.data.pagination.pages = 2
    /\ res.data.pagination.page = 2
    /\ res.data.pagination.total = 2
    /\ req.sort # ""
    /\ Len(res.data.rooms) = 1
    /\ Len(PageNumbered(1)) = 1
    /\ PageNumbered(1)[1].roomId # res.data.rooms[1].roomId

\* the handler names of the configured actions
HandlerNames ==
    { opts.actions.room.list[i].handler : i \in 1..Len(opts.actions.room.list) }
    \cup { opts.actions.client.list[i].handler : i \in 1..Len(opts.actions.client.list) }

\* every entry has the five public fields only, none of them a handler name
Undisclosed(entries) ==
    \A i \in 1..Len(entries) :
        /\ DOMAIN entries[i] = {"id", "name", "description", "icon", "confirmRequired"}
        /\ \A f \in {"id", "name", "description", "icon"} :
              entries[i][f] = "" \/ entries[i][f] \notin HandlerNames

\* C30: the action entries of every GET / response (actions.room,
\* actions.client) and of every GET /room response (actions,
\* clientActions) carry id, name, description, icon and confirmRequired
\* only; the handler name of an action is in no entry.
C30_HandlersUndisclosed ==
    /\ Listed =>
          /\ Undisclosed(res.data.actions.room)
          /\ Undisclosed(res.data.actions.client)
    /\ (req.route = "/room" /\ res.status = 200) =>
          /\ Undisclosed(res.data.actions)
          /\ Undisclosed(res.data.clientActions)

\* a live room inspected: its response lists the three room actions and
\* the client action that the options configure with handlers
C30_Witness ==
    /\ req.route = "/room"
    /\ res.status = 200
    /\ RoomLive(req.roomId)
    /\ Len(res.data.actions) = 3
    /\ Len(res.data.clientActions) = 1
    /\ res.data.actions[1].id = "restart"
    /\ opts.actions.room.list[1].handler = "restartRoom"

----------------------------------------------------------------------------
(* Properties of GET / under interleaving, under SpecAsync.                *)

Min(a, b) == IF a < b THEN a ELSE b

\* C29: the rooms, the total and the connections of every GET / response
\* come from one reading of the registry, so the rooms array is never
\* longer than the lesser of limit and total, whatever was created,
\* disposed or answered while the request was suspended.
C29_SnapshotConsistent ==
    Listed =>
        /\ Len(res.data.rooms)
              <= Min(res.data.pagination.limit, res.data.pagination.total)
        /\ res.data.connections = ClientsOnPage(res.data.rooms)

\* the part of C29 that does not depend on the sign of limit: with
\* limit >= 1 the bound holds in every response
SnapshotBoundForValidLimit ==
    (Listed /\ res.data.pagination.limit >= 1) =>
        Len(res.data.rooms)
            <= Min(res.data.pagination.limit, res.data.pagination.total)

====
